---------------------------- MODULE Spec2Model ----------------------------
(***************************************************************************)
(* Chatham Financial report generator: the three report pipelines          *)
(*   generate_debt_report       (Reports/Debt_report.py, queuing_report.py)*)
(*   generate_payment_report    (Reports/payment_report.py)                *)
(*   generate_valuation_report  (Reports/valuation_report.py)              *)
(* as state machines over an external API whose answers are chosen         *)
(* nondeterministically, and a file system holding the output folder and   *)
(* the three spreadsheet files.                                            *)
(***************************************************************************)
EXTENDS Integers, Sequences, FiniteSets, TLC

(***************************************************************************)
(* Bounds of the model                                                     *)
(***************************************************************************)
\* most Loan elements in the XML body of the debt report
MaxLoans == 2
\* most items in the "Items" list of a valuation payload
MaxItems == 2
\* TotalRecords reported by the payment endpoint ranges up to MaxPages pages
MaxPages == 2

(***************************************************************************)
(* Program constants                                                       *)
(***************************************************************************)
\* Debt_report.py: max_retries = 5
max_retries == 5
\* valuation_report.py: poll_report_status(job_id, retries=30, delay=5)
poll_retries == 30
\* payment_report.py: "limit": 100
limit == 100

Kinds == {"debt", "payment", "valuation"}

\* HTTP status codes the API is taken to answer with
Statuses == {200, 202, 404, 500}

\* Python's None, and the job identifiers a response may carry
None == "None"
JobIdValues == {None, "", "job-1"}

\* mutant of Truthy: only None is falsy
Truthy_NotNone(v) == v # None

\* Python truthiness of a job id: None and the empty string are falsy
Truthy(v) == v # None /\ v # ""

VARIABLES
    entry,          \* the pipeline function that is called in this run
    pc,             \* pc[k]: position of pipeline k
    result,         \* result[k]: the dict pipeline k returned
    returns,        \* returns[k]: how many times pipeline k has returned
    dirExists,      \* the output folder "Generated Files" exists
    file,           \* file[k]: the output file of pipeline k
    writes,         \* writes[k]: to_excel calls of pipeline k in this run
    sleeps,         \* sleeps[k]: time.sleep calls of pipeline k in this run
    df,             \* df[k]: len(df) of pipeline k, -1 while there is no df
    \* ---- generate_debt_report
    job_id,         \* value returned by jobid()
    retries,        \* retries
    success,        \* success
    dPosts,         \* POSTs to /report/portfolio issued
    dPostStatus,    \* status of the POST (0: none yet, or it raised)
    dPostJobId,     \* "JobId" of the POST's JSON body, None when it has none
    dGets,          \* GETs of /report/{job_id} issued
    dLast,          \* status of the last GET (0: none yet, or it raised)
    dNon200,        \* every GET so far returned a status, and it was not 200
    \* ---- generate_payment_report
    all_items,      \* len(all_items)
    total_records,  \* total_records, -1 while unset
    pPuts,          \* PUTs of the template issued
    pPutStatus,     \* status of the PUT (0: none yet, or it raised)
    pGets,          \* GETs of the payments report issued (first page included)
    pFirstStatus,   \* status of the first GET (0: none yet, or it raised)
    pOffset,        \* "offset" of the last GET, -1 before the first
    pServed,        \* items the endpoint has served in its 200 answers
    pPageFailed,    \* a page GET after the first returned a non-200 status
    pAllFull,       \* every 200 answer so far carried exactly `limit` items
    \* ---- generate_valuation_report
    vJob,           \* result["job_id"], None when the data came inline
    report_data,    \* report_data: the payload handed to export_to_excel
    file_path,      \* file_path returned by export_to_excel
    vPuts,          \* PUTs of the template issued
    vPutStatus,     \* status of the PUT (0: none yet, or it raised)
    vGets,          \* GETs of the transactions report issued
    vGetStatus,     \* status of the transactions GET (0: none yet, or it raised)
    vGetJobId,      \* "JobId" of the answer to the transactions GET
    vGetData,       \* body of the answer to the transactions GET
    vPolls,         \* GETs of /report/{job_id} issued by poll_report_status
    vLast,          \* status of the last poll (0: none yet, or it raised)
    vAll202,        \* every poll so far returned 202
    vPollEnd,       \* how poll_report_status ended
    vExports,       \* calls of export_to_excel
    \* ---- main.py
    choice,         \* choice = DEFAULT_EXECUTION_METHOD
    orch,           \* position of main / run_reports_*; "none" when not called
    max_workers,    \* size of the ThreadPoolExecutor, 0 while there is none
    idx,            \* run_reports_sequentially: index of the current report
    results,        \* results
    calls,          \* calls[k]: how many times pipeline function k was called
    \* ---- flatten_xml
    element,        \* the element flatten_xml is applied to
    flat,           \* the dict flatten_xml returned
    flattened,      \* flatten_xml has returned
    data_list,      \* the records handed to pd.DataFrame(...)
    summary         \* what print_summary returned

commonVars == <<entry, pc, result, returns, dirExists, file, writes, sleeps, df>>
debtVars ==
    <<job_id, retries, success, dPosts, dPostStatus, dPostJobId, dGets, dLast,
      dNon200>>
paymentVars ==
    <<all_items, total_records, pPuts, pPutStatus, pGets, pFirstStatus,
      pOffset, pServed, pPageFailed, pAllFull>>
valuationVars ==
    <<vJob, report_data, file_path, vPuts, vPutStatus, vGets, vGetStatus,
      vGetJobId, vGetData,
      vPolls, vLast, vAll202, vPollEnd, vExports>>
orchVars == <<choice, orch, max_workers, idx, results>>
flatVars == <<element, flat, flattened, data_list, summary>>
\* what no step of a pipeline changes
otherVars == <<orchVars, flatVars, calls>>
vars == <<commonVars, debtVars, paymentVars, valuationVars, otherVars>>

(***************************************************************************)
(* Results and files                                                       *)
(***************************************************************************)
NoResult == [success |-> FALSE, error |-> "", file_path |-> "", records |-> -1]

Failure(msg) ==
    [success |-> FALSE, error |-> msg, file_path |-> None, records |-> -1]

Success(path, n) ==
    [success |-> TRUE, error |-> None, file_path |-> path, records |-> n]

Path(k) ==
    CASE k = "debt" -> "Generated Files/Debt_Report.xlsx"
      [] k = "payment" -> "Generated Files/Payment_Report.xlsx"
      [] k = "valuation" -> "Generated Files/Valuation_Report.xlsx"

\* a file: absent, stale (left by an earlier run) or fresh (written in this run)
Absent == [state |-> "absent", rows |-> 0, marker |-> FALSE]
Stale == [state |-> "stale", rows |-> 0, marker |-> FALSE]
Fresh(rows, marker) == [state |-> "fresh", rows |-> rows, marker |-> marker]

\* os.path.exists(path)
Exists(k) == file[k].state # "absent"

\* the return statements of a pipeline
Return(k, res) ==
    /\ result' = [result EXCEPT ![k] = res]
    /\ returns' = [returns EXCEPT ![k] = @ + 1]
    /\ pc' = [pc EXCEPT ![k] = "done"]

\* df.to_excel(path, index=False)
ToExcel(k, rows, marker) ==
    /\ file' = [file EXCEPT ![k] = Fresh(rows, marker)]
    /\ writes' = [writes EXCEPT ![k] = @ + 1]

\* time.sleep(...)
Sleep(k) == sleeps' = [sleeps EXCEPT ![k] = @ + 1]

\* mutant of Except: the pipeline has no except clause, the exception leaves
\* the function and nothing is returned
Except_Propagates(k, e) ==
    /\ pc' = [pc EXCEPT ![k] = "raised"]
    /\ UNCHANGED <<result, returns>>

\* except Exception as e: return {"success": False, "error": str(e),
\* "file_path": None} -- the try block spans the whole body of each pipeline
Except(k, e) == Return(k, Failure(e))

\* a jump inside a pipeline: nothing is returned
Goto(k, label) ==
    /\ pc' = [pc EXCEPT ![k] = label]
    /\ UNCHANGED <<result, returns>>

\* str(e) of the exceptions a pipeline catches at its boundary
ConnectionError == "ConnectionError"
FileExistsError == "FileExistsError"

(***************************************************************************)
(* Answers of the external API.  raised = TRUE: the requests call raised   *)
(* (no connection) instead of returning a response.                        *)
(***************************************************************************)
NoAnswer == [raised |-> TRUE, status_code |-> 0]

\* PUT of a template
PutResponses ==
    {NoAnswer} \cup {[raised |-> FALSE, status_code |-> s] : s \in Statuses}

\* POST /report/portfolio: the JSON body may carry "JobId"
PostResponses ==
    {[raised |-> TRUE, status_code |-> 0, JobId |-> None]}
    \cup {[raised |-> FALSE, status_code |-> s, JobId |-> j] :
            s \in Statuses, j \in JobIdValues}

\* GET /report/{job_id} as XML: the body holds `loans` Loan elements
XmlResponses ==
    {[raised |-> TRUE, status_code |-> 0, loans |-> 0]}
    \cup {[raised |-> FALSE, status_code |-> s, loans |-> 0] :
            s \in Statuses \ {200}}
    \cup {[raised |-> FALSE, status_code |-> 200, loans |-> n] : n \in 0..MaxLoans}

(***************************************************************************)
(* The caller: a pipeline function called on its own, or main.py           *)
(***************************************************************************)
\* in a run of main.py the API is taken to answer every call, with 200 or
\* 500; a 200 carries a job id or none, at most one Loan or item, and pages
\* that are empty or full under a TotalRecords of one page
MainStatuses == {200, 500}
MainAnswer(r) ==
    /\ ~r.raised
    /\ r.status_code \in MainStatuses
    /\ ("JobId" \in DOMAIN r =>
          r.JobId \in (IF r.status_code = 200 THEN {None, "job-1"} ELSE {None}))
    /\ ("loans" \in DOMAIN r => r.loans <= 1)
    /\ ("data" \in DOMAIN r => r.data.items <= 1)
    /\ ("items" \in DOMAIN r /\ r.status_code = 200 =>
          /\ r.hasItems /\ r.hasPaging
          /\ r.items \in {0, limit}
          /\ r.TotalRecords = limit)

Answers(S) == IF entry \in Kinds THEN S ELSE {r \in S : MainAnswer(r)}

\* reports = [Payment Report, Debt Report, Valuation Report]
reports == <<"payment", "debt", "valuation">>

\* pipelines whose function has been called and has not yet ended
Running == {k \in Kinds : pc[k] \notin {"idle", "done", "raised"}}

\* mutant of SeqInvoked: the reports are started without waiting for the
\* previous one
SeqInvoked_NoWait(k) == orch = "seq"

\* run_reports_sequentially calls the current report of its loop
SeqInvoked(k) == orch = "seq" /\ idx <= Len(reports) /\ reports[idx] = k

\* mutant of PoolInvoked: every submitted task gets a thread of its own
PoolInvoked_Unbounded(k) == orch = "par"

\* ThreadPoolExecutor: a submitted task starts once a worker is free and the
\* tasks submitted before it have started
PoolInvoked(k) ==
    /\ orch = "par"
    /\ Cardinality(Running) < max_workers
    /\ \A i \in 1..Len(reports) :
          (\E j \in (i + 1)..Len(reports) : reports[j] = k) => pc[reports[i]] # "idle"

FirstStep(k) ==
    CASE k = "debt" -> "jobid"
      [] k = "payment" -> "put"
      [] k = "valuation" -> "put"

Invoked(k) ==
    IF entry \in Kinds THEN entry = k ELSE (SeqInvoked(k) \/ PoolInvoked(k))

Start(k) ==
    /\ pc[k] = "idle"
    /\ Invoked(k)
    /\ Goto(k, FirstStep(k))
    /\ calls' = [calls EXCEPT ![k] = @ + 1]
    /\ UNCHANGED <<orchVars, flatVars, entry, dirExists, file, writes, sleeps, df>>
    /\ UNCHANGED <<debtVars, paymentVars, valuationVars>>

(***************************************************************************)
(* generate_debt_report                                                    *)
(***************************************************************************)
\* mutant of jobid: the status of the POST is not looked at
jobid_IgnoreStatus(r) == r.JobId

\* queuing_report.jobid(): the JobId of a 200 answer, None otherwise
jobid(r) ==
    IF r.status_code = 200
    THEN (IF r.JobId # None THEN r.JobId ELSE None)
    ELSE None

\* mutant of DebtLoop: the success flag is not looked at
DebtLoop_IgnoreSuccess(n, ok) == n < max_retries

\* mutant of DebtLoop: the bound is off by one
DebtLoop_OffByOne(n, ok) == n <= max_retries /\ ~ok

\* while retries < max_retries and not success
DebtLoop(n, ok) == n < max_retries /\ ~ok

\* job_id = jobid(); if not job_id: return failure
DebtSubmit ==
    /\ pc["debt"] = "jobid"
    /\ \E r \in Answers(PostResponses) :
        /\ dPosts' = dPosts + 1
        /\ dPostStatus' = r.status_code
        /\ dPostJobId' = r.JobId
        /\ IF r.raised
           THEN /\ Except("debt", ConnectionError)
                /\ UNCHANGED job_id
           ELSE /\ job_id' = jobid(r)
                /\ IF ~Truthy(jobid(r))
                   THEN Return("debt", Failure("Failed to retrieve jobid"))
                   ELSE Goto("debt", "get")
    /\ UNCHANGED <<otherVars, entry, dirExists, file, writes, sleeps, df>>
    /\ UNCHANGED <<retries, success, dGets, dLast, dNon200>>
    /\ UNCHANGED <<paymentVars, valuationVars>>

\* one iteration of the retry loop up to the directory check
DebtGet ==
    /\ pc["debt"] = "get"
    /\ \E r \in Answers(XmlResponses) :
        /\ dGets' = dGets + 1
        /\ dLast' = r.status_code
        /\ dNon200' = (dNon200 /\ ~r.raised /\ r.status_code # 200)
        /\ IF r.raised
           THEN /\ Except("debt", ConnectionError)
                /\ UNCHANGED <<retries, success, df, sleeps>>
           ELSE IF r.status_code = 200
           THEN /\ success' = TRUE
                /\ df' = [df EXCEPT !["debt"] = r.loans]
                /\ Goto("debt", "checkdir")
                /\ UNCHANGED <<retries, sleeps>>
           ELSE /\ retries' = retries + 1
                /\ Sleep("debt")
                /\ Goto("debt",
                        IF DebtLoop(retries + 1, success) THEN "get" ELSE "return")
                /\ UNCHANGED <<success, df>>
    /\ UNCHANGED <<otherVars, entry, dirExists, file, writes>>
    /\ UNCHANGED <<job_id, dPosts, dPostStatus, dPostJobId>>
    /\ UNCHANGED <<paymentVars, valuationVars>>

\* if not os.path.exists(os.path.dirname(output_path))
DebtCheckDir ==
    /\ pc["debt"] = "checkdir"
    /\ Goto("debt", IF ~dirExists THEN "makedirs" ELSE "to_excel")
    /\ UNCHANGED <<otherVars, entry, dirExists, file, writes, sleeps, df>>
    /\ UNCHANGED <<debtVars, paymentVars, valuationVars>>

\* os.makedirs(os.path.dirname(output_path)): raises when the folder exists
DebtMakedirs ==
    /\ pc["debt"] = "makedirs"
    /\ IF dirExists
       THEN /\ Except("debt", FileExistsError)
            /\ UNCHANGED dirExists
       ELSE /\ dirExists' = TRUE
            /\ Goto("debt", "to_excel")
    /\ UNCHANGED <<otherVars, entry, file, writes, sleeps, df>>
    /\ UNCHANGED <<debtVars, paymentVars, valuationVars>>

\* df.to_excel(output_path, index=False), then the loop condition
DebtToExcel ==
    /\ pc["debt"] = "to_excel"
    /\ ToExcel("debt", df["debt"], FALSE)
    /\ Goto("debt", IF DebtLoop(retries, success) THEN "get" ELSE "return")
    /\ UNCHANGED <<otherVars, entry, dirExists, sleeps, df>>
    /\ UNCHANGED <<debtVars, paymentVars, valuationVars>>

\* if success and os.path.exists(output_path): ... else: ...
DebtReturn ==
    /\ pc["debt"] = "return"
    /\ IF success /\ Exists("debt")
       THEN Return("debt", Success(Path("debt"), df["debt"]))
       ELSE Return("debt",
                   Failure("Failed to retrieve data after multiple attempts"))
    /\ UNCHANGED <<otherVars, entry, dirExists, file, writes, sleeps, df>>
    /\ UNCHANGED <<debtVars, paymentVars, valuationVars>>

(***************************************************************************)
(* generate_payment_report                                                 *)
(***************************************************************************)
\* item counts a page of the payments endpoint may carry (at most `limit`)
PageSizes == {0, limit \div 2, limit}

\* values of Paging.TotalRecords
Totals == {n \in 0..(limit * MaxPages) : n % (limit \div 2) \in {0, 1}}

\* GET .../reports/payments/{id}: the JSON body may carry "Items" and "Paging"
PageResponses ==
    {[raised |-> TRUE, status_code |-> 0, hasItems |-> FALSE, items |-> 0,
      hasPaging |-> FALSE, TotalRecords |-> 0]}
    \cup {[raised |-> FALSE, status_code |-> s, hasItems |-> FALSE, items |-> 0,
           hasPaging |-> FALSE, TotalRecords |-> 0] : s \in Statuses \ {200}}
    \cup {[raised |-> FALSE, status_code |-> 200, hasItems |-> FALSE, items |-> 0,
           hasPaging |-> hp, TotalRecords |-> IF hp THEN t ELSE 0] :
            hp \in BOOLEAN, t \in Totals}
    \cup {[raised |-> FALSE, status_code |-> 200, hasItems |-> TRUE, items |-> n,
           hasPaging |-> hp, TotalRecords |-> IF hp THEN t ELSE 0] :
            n \in PageSizes, hp \in BOOLEAN, t \in Totals}

\* items a 200 answer serves
Served(r) == IF ~r.raised /\ r.status_code = 200 /\ r.hasItems THEN r.items ELSE 0

\* mutant of PageLoop: one request too many when the total is reached
PageLoop_OffByOne(n, total) == n <= total

\* while len(all_items) < total_records
PageLoop(n, total) == n < total

\* mutant of PageHasItems: an empty page does not leave the loop
PageHasItems_KeyOnly(r) == r.hasItems

\* if "Items" in page_data and page_data["Items"]
PageHasItems(r) == r.hasItems /\ r.items > 0

\* mutant of ReportFailed: only 4xx and 5xx count as failures
ReportFailed_ErrorsOnly(status) == status >= 400

\* if report_response.status_code != 200: return failure
ReportFailed(status) == status # 200

\* mutant of AfterPage: a failing page is asked for again (continue, not break)
AfterPage_Retry(r, n, total) ==
    IF r.status_code = 200
    THEN IF PageHasItems(r)
         THEN (IF PageLoop(n + r.items, total) THEN "page" ELSE "export")
         ELSE "export"
    ELSE "page"

\* where the pagination loop goes after the answer r to a page request, with
\* n items collected before it: "page" for another iteration, "export" once
\* the loop is left (its condition is false, or a break)
AfterPage(r, n, total) ==
    IF r.status_code = 200
    THEN IF PageHasItems(r)
         THEN (IF PageLoop(n + r.items, total) THEN "page" ELSE "export")
         ELSE "export"
    ELSE "export"

\* Step 1: requests.put(API_URL, ...)
PaymentPut ==
    /\ pc["payment"] = "put"
    /\ \E r \in Answers(PutResponses) :
        /\ pPuts' = pPuts + 1
        /\ pPutStatus' = r.status_code
        /\ IF r.raised
           THEN Except("payment", ConnectionError)
           ELSE IF r.status_code # 200
           THEN Return("payment",
                       Failure("Failed to create/update payment template"))
           ELSE Goto("payment", "get")
    /\ UNCHANGED <<otherVars, entry, dirExists, file, writes, sleeps, df>>
    /\ UNCHANGED <<all_items, total_records, pGets, pFirstStatus, pOffset,
                   pServed, pPageFailed, pAllFull>>
    /\ UNCHANGED <<debtVars, valuationVars>>

\* Step 2: the first GET (offset 0) and the collection of the first page
PaymentGet ==
    /\ pc["payment"] = "get"
    /\ \E r \in Answers(PageResponses) :
        /\ pGets' = pGets + 1
        /\ pFirstStatus' = r.status_code
        /\ pOffset' = 0
        /\ pServed' = pServed + Served(r)
        /\ pAllFull' = (pAllFull /\ Served(r) = limit)
        /\ IF r.raised
           THEN /\ Except("payment", ConnectionError)
                /\ UNCHANGED <<all_items, total_records>>
           ELSE IF ReportFailed(r.status_code)
           THEN /\ Return("payment",
                          Failure("Failed to generate payment report"))
                /\ UNCHANGED <<all_items, total_records>>
           ELSE IF r.hasItems
           THEN /\ all_items' = all_items + r.items
                /\ IF r.hasPaging
                   THEN /\ total_records' = r.TotalRecords
                        /\ Goto("payment",
                                IF PageLoop(all_items + r.items, r.TotalRecords)
                                THEN "page" ELSE "export")
                   ELSE /\ UNCHANGED total_records
                        /\ Goto("payment", "export")
           ELSE /\ Goto("payment", "export")
                /\ UNCHANGED <<all_items, total_records>>
    /\ UNCHANGED <<otherVars, entry, dirExists, file, writes, sleeps, df>>
    /\ UNCHANGED <<pPuts, pPutStatus, pPageFailed>>
    /\ UNCHANGED <<debtVars, valuationVars>>

\* one iteration of the pagination loop
PaymentPage ==
    /\ pc["payment"] = "page"
    /\ \E r \in Answers(PageResponses) :
        /\ pGets' = pGets + 1
        /\ pOffset' = all_items
        /\ pServed' = pServed + Served(r)
        /\ pAllFull' = (pAllFull /\ Served(r) = limit)
        /\ pPageFailed' = (pPageFailed \/ (~r.raised /\ r.status_code # 200))
        /\ IF r.raised
           THEN /\ Except("payment", ConnectionError)
                /\ UNCHANGED all_items
           ELSE /\ all_items' =
                    IF r.status_code = 200 /\ PageHasItems(r)
                    THEN all_items + r.items ELSE all_items
                /\ Goto("payment", AfterPage(r, all_items, total_records))
    /\ UNCHANGED <<otherVars, entry, dirExists, file, writes, sleeps, df>>
    /\ UNCHANGED <<total_records, pPuts, pPutStatus, pFirstStatus>>
    /\ UNCHANGED <<debtVars, valuationVars>>

\* Step 3: os.makedirs(OUTPUT_FOLDER, exist_ok=True) and df.to_excel
PaymentExport ==
    /\ pc["payment"] = "export"
    /\ dirExists' = TRUE
    /\ IF all_items > 0
       THEN /\ df' = [df EXCEPT !["payment"] = all_items]
            /\ ToExcel("payment", all_items, FALSE)
       ELSE /\ df' = [df EXCEPT !["payment"] = 1]
            /\ ToExcel("payment", 1, TRUE)
    /\ Goto("payment", "return")
    /\ UNCHANGED <<otherVars, entry, sleeps>>
    /\ UNCHANGED <<debtVars, paymentVars, valuationVars>>

\* Verify file: if os.path.exists(file_path): ... else: ...
PaymentReturn ==
    /\ pc["payment"] = "return"
    /\ IF Exists("payment")
       THEN Return("payment", Success(Path("payment"), df["payment"]))
       ELSE Return("payment", Failure("Report file was not created"))
    /\ UNCHANGED <<otherVars, entry, dirExists, file, writes, sleeps, df>>
    /\ UNCHANGED <<debtVars, paymentVars, valuationVars>>

(***************************************************************************)
(* generate_valuation_report                                               *)
(***************************************************************************)
\* a JSON payload: it may carry "Items", a list of `items` elements
NoData == [hasItems |-> FALSE, items |-> -1]
Payloads ==
    {[hasItems |-> FALSE, items |-> 0]}
    \cup {[hasItems |-> TRUE, items |-> n] : n \in 0..MaxItems}

\* GET .../reports/transactions/{id}: inline data, or a "JobId"
TxnResponses ==
    {[raised |-> TRUE, status_code |-> 0, JobId |-> None,
      data |-> [hasItems |-> FALSE, items |-> 0]]}
    \cup {[raised |-> FALSE, status_code |-> s, JobId |-> None,
           data |-> [hasItems |-> FALSE, items |-> 0]] : s \in Statuses \ {200}}
    \cup {[raised |-> FALSE, status_code |-> 200, JobId |-> j, data |-> d] :
            j \in JobIdValues, d \in Payloads}

\* GET /report/{job_id} as JSON
PollResponses ==
    {[raised |-> TRUE, status_code |-> 0,
      data |-> [hasItems |-> FALSE, items |-> 0]]}
    \cup {[raised |-> FALSE, status_code |-> s,
           data |-> [hasItems |-> FALSE, items |-> 0]] : s \in Statuses \ {200}}
    \cup {[raised |-> FALSE, status_code |-> 200, data |-> d] : d \in Payloads}

\* data.get("Items", [])
Items(data) == IF data.hasItems THEN data.items ELSE 0

\* mutant of PollLoop: the bound is off by one
PollLoop_OffByOne(n) == n <= poll_retries

\* for _ in range(retries): another poll is due after n polls
PollLoop(n) == n < poll_retries

\* mutant of StillProcessing: every non-200 status is polled again
StillProcessing_AnyStatus(status) == status # 200

\* elif response.status_code == 202: keep polling
StillProcessing(status) == status = 202

\* mutant of create_valuation_template: any 2xx status counts as created
create_valuation_template_Any2xx(r) == r.status_code < 300

\* create_valuation_template: return response.status_code == 200
create_valuation_template(r) == r.status_code = 200

\* mutant of PollRaise: the failure is swallowed (poll_report_status returns
\* an empty payload instead of raising) and the export step runs
PollRaise_Swallowed(msg, how) ==
    /\ Goto("valuation", "export")
    /\ vPollEnd' = how
    /\ report_data' = [hasItems |-> FALSE, items |-> 0]

\* the raise statements of poll_report_status: the exception leaves
\* generate_valuation_report through its except clause
PollRaise(msg, how) ==
    /\ Except("valuation", msg)
    /\ vPollEnd' = how
    /\ UNCHANGED report_data

\* if not create_valuation_template(TEMPLATE_ID): return failure
ValuationPut ==
    /\ pc["valuation"] = "put"
    /\ \E r \in Answers(PutResponses) :
        /\ vPuts' = vPuts + 1
        /\ vPutStatus' = r.status_code
        /\ IF r.raised
           THEN Except("valuation", ConnectionError)
           ELSE IF create_valuation_template(r)
           THEN Goto("valuation", "get")
           ELSE Return("valuation", Failure("Template creation failed"))
    /\ UNCHANGED <<otherVars, entry, dirExists, file, writes, sleeps, df>>
    /\ UNCHANGED <<vJob, report_data, file_path, vGets, vGetStatus, vGetJobId,
                   vGetData, vPolls,
                   vLast, vAll202, vPollEnd, vExports>>
    /\ UNCHANGED <<debtVars, paymentVars>>

\* result = get_transaction_report(TEMPLATE_ID); if "job_id" in result: ...
ValuationGet ==
    /\ pc["valuation"] = "get"
    /\ \E r \in Answers(TxnResponses) :
        /\ vGets' = vGets + 1
        /\ vGetStatus' = r.status_code
        /\ vGetJobId' = r.JobId
        /\ vGetData' = r.data
        /\ IF r.raised
           THEN /\ Except("valuation", ConnectionError)
                /\ UNCHANGED <<vJob, report_data>>
           ELSE IF r.status_code = 200
           THEN IF Truthy(r.JobId)
                THEN /\ vJob' = r.JobId
                     /\ Goto("valuation", "poll")
                     /\ UNCHANGED report_data
                ELSE /\ report_data' = r.data
                     /\ Goto("valuation", "export")
                     /\ UNCHANGED vJob
           ELSE /\ Except("valuation", "Failed to start report job")
                /\ UNCHANGED <<vJob, report_data>>
    /\ UNCHANGED <<otherVars, entry, dirExists, file, writes, sleeps, df>>
    /\ UNCHANGED <<file_path, vPuts, vPutStatus, vPolls, vLast, vAll202, vPollEnd,
                   vExports>>
    /\ UNCHANGED <<debtVars, paymentVars>>

\* poll_report_status: one iteration of the polling loop; the TimeoutError
\* follows the last iteration at once
ValuationPoll ==
    /\ pc["valuation"] = "poll"
    /\ PollLoop(vPolls)
    /\ \E r \in Answers(PollResponses) :
        /\ vPolls' = vPolls + 1
        /\ vLast' = r.status_code
        /\ vAll202' = (vAll202 /\ ~r.raised /\ r.status_code = 202)
        /\ IF r.raised
           THEN /\ PollRaise(ConnectionError, "raised")
                /\ UNCHANGED sleeps
           ELSE IF r.status_code = 200
           THEN /\ report_data' = r.data
                /\ vPollEnd' = "ready"
                /\ Goto("valuation", "export")
                /\ UNCHANGED sleeps
           ELSE IF StillProcessing(r.status_code)
           THEN /\ Sleep("valuation")
                /\ IF PollLoop(vPolls + 1)
                   THEN /\ Goto("valuation", "poll")
                        /\ UNCHANGED <<vPollEnd, report_data>>
                   ELSE PollRaise("Report generation timed out.", "timeout")
           ELSE /\ PollRaise("Unexpected status", "unexpected")
                /\ UNCHANGED sleeps
    /\ UNCHANGED <<otherVars, entry, dirExists, file, writes, df>>
    /\ UNCHANGED <<vJob, file_path, vPuts, vPutStatus, vGets, vGetStatus,
                   vGetJobId, vGetData, vExports>>
    /\ UNCHANGED <<debtVars, paymentVars>>

\* file_path, record_count = export_to_excel(report_data, FILENAME)
ValuationExport ==
    /\ pc["valuation"] = "export"
    /\ vExports' = vExports + 1
    /\ dirExists' = TRUE
    /\ IF Items(report_data) = 0
       THEN /\ file_path' = None
            /\ df' = [df EXCEPT !["valuation"] = 0]
            /\ UNCHANGED <<file, writes>>
       ELSE /\ file_path' = Path("valuation")
            /\ df' = [df EXCEPT !["valuation"] = Items(report_data)]
            /\ ToExcel("valuation", Items(report_data), FALSE)
    /\ Goto("valuation", "return")
    /\ UNCHANGED <<otherVars, entry, sleeps>>
    /\ UNCHANGED <<vJob, report_data, vPuts, vPutStatus, vGets, vGetStatus,
      vGetJobId, vGetData,
                   vPolls, vLast, vAll202, vPollEnd>>
    /\ UNCHANGED <<debtVars, paymentVars>>

\* if file_path and os.path.exists(file_path): ... else: ...
ValuationReturn ==
    /\ pc["valuation"] = "return"
    /\ IF file_path # None /\ Exists("valuation")
       THEN Return("valuation", Success(Path("valuation"), df["valuation"]))
       ELSE Return("valuation",
                   Failure("Report file was not created or contains no data"))
    /\ UNCHANGED <<otherVars, entry, dirExists, file, writes, sleeps, df>>
    /\ UNCHANGED <<debtVars, paymentVars, valuationVars>>

(***************************************************************************)
(* main.py                                                                 *)
(***************************************************************************)
\* DEFAULT_EXECUTION_METHOD: "1" for sequential, "2" for parallel
ExecutionMethods == {"1", "2"}

\* def run_reports_parallel(max_workers=3)
DefaultMaxWorkers == 3
\* main: run_reports_parallel(max_workers=2)
MainMaxWorkers == 2

\* what the orchestrator appends to results for pipeline k: its result, or the
\* failure built in the except clause when the call raised
Recorded(k) ==
    [name |-> k,
     result |-> IF pc[k] = "raised" THEN Failure("crashed") ELSE result[k]]

Ended(k) == pc[k] \in {"done", "raised"}

\* if choice == "2": run_reports_parallel(max_workers=2)
\* else: run_reports_sequentially()
MainDispatch ==
    /\ orch = "main"
    /\ IF choice = "2"
       THEN /\ orch' = "par"
            /\ max_workers' = MainMaxWorkers
            /\ UNCHANGED idx
       ELSE /\ orch' = "seq"
            /\ idx' = 1
            /\ UNCHANGED max_workers
    /\ UNCHANGED <<choice, results, calls, flatVars>>
    /\ UNCHANGED <<commonVars, debtVars, paymentVars, valuationVars>>

\* run_reports_sequentially: the call of the current report has ended; its
\* result (or its crash) is appended and the loop moves on
SeqRecord ==
    /\ orch = "seq"
    /\ idx <= Len(reports)
    /\ Ended(reports[idx])
    /\ results' = Append(results, Recorded(reports[idx]))
    /\ idx' = idx + 1
    /\ UNCHANGED <<choice, orch, max_workers, calls, flatVars>>
    /\ UNCHANGED <<commonVars, debtVars, paymentVars, valuationVars>>

\* run_reports_parallel: for future in as_completed(future_to_report)
ParCollect(k) ==
    /\ orch = "par"
    /\ Ended(k)
    /\ \A i \in 1..Len(results) : results[i].name # k
    /\ results' = Append(results, Recorded(k))
    /\ UNCHANGED <<choice, orch, max_workers, idx, calls, flatVars>>
    /\ UNCHANGED <<commonVars, debtVars, paymentVars, valuationVars>>

\* mutant of LoopOver: the loop is left at the first failed report
LoopOver_StopAtFailure ==
    \/ (IF orch = "seq" THEN idx > Len(reports)
        ELSE orch = "par" /\ Len(results) = Len(reports))
    \/ (/\ orch \in {"seq", "par"}
        /\ \E i \in 1..Len(results) : ~results[i].result.success)

\* the loop of run_reports_* is over
LoopOver ==
    IF orch = "seq" THEN idx > Len(reports)
    ELSE orch = "par" /\ Len(results) = Len(reports)

\* return results
OrchReturn ==
    /\ LoopOver
    /\ orch' = "returned"
    /\ UNCHANGED <<choice, max_workers, idx, results, calls, flatVars>>
    /\ UNCHANGED <<commonVars, debtVars, paymentVars, valuationVars>>

\* most entries of a results list given to print_summary, and the largest
\* record count of an entry
MaxResults == 3
MaxRecords == 2

\* dict.get(k, default)
Get(d, k, default) == IF k \in DOMAIN d THEN d[k] ELSE default

\* result dicts: with or without "success", "records" and "error"
ResultDicts ==
    {[success |-> TRUE, records |-> n] : n \in 0..MaxRecords}
    \cup {[success |-> TRUE, file_path |-> "f"],
          [success |-> FALSE, error |-> "e"],
          [success |-> FALSE, error |-> "e", records |-> 1],
          [error |-> "e"]}
ResultLists ==
    UNION {[1..n -> {[name |-> "r", result |-> d] : d \in ResultDicts}] :
              n \in 0..MaxResults}

\* mutant of Succeeded: the presence of the flag is tested, not its value
Succeeded_HasFlag(res) == "success" \in DOMAIN res

\* if result.get("success", False)
Succeeded(res) == Get(res, "success", FALSE)

\* print_summary: the for loop from item i on
RECURSIVE SummaryFrom(_, _, _, _, _)
SummaryFrom(rs, i, successful, failed, total) ==
    IF i > Len(rs) THEN <<successful, failed, total>>
    ELSE IF Succeeded(rs[i].result)
    THEN SummaryFrom(rs, i + 1, successful + 1, failed,
                     total + Get(rs[i].result, "records", 0))
    ELSE SummaryFrom(rs, i + 1, successful, failed + 1, total)

\* print_summary(results): return successful, failed, total_records
print_summary(rs) == SummaryFrom(rs, 1, 0, 0, 0)

\* successful, failed, total_records = print_summary(results)
PrintSummary ==
    /\ entry = "print_summary" \/ (entry = "main" /\ orch = "returned")
    /\ summary = <<>>
    /\ summary' = print_summary(results)
    /\ UNCHANGED <<orchVars, calls, element, flat, flattened, data_list>>
    /\ UNCHANGED <<commonVars, debtVars, paymentVars, valuationVars>>

(***************************************************************************)
(* flatten_xml (Debt_report.py)                                            *)
(***************************************************************************)
\* most children of a Loan element, and of a child of it
MaxChildren == 2
MaxGrand == 1
\* longest namespace and longest local name of a tag, in characters
MaxNs == 2
MaxName == 2

\* a tag is a sequence of characters.  ElementTree writes the tag of a
\* namespaced element as "{ns}name"; the parser accepts no "}" inside ns, and
\* a local name holds no brace
NsChars == {"u", ":", "{"}
NameChars == {"F", "o"}
Strings(chars, lo, hi) == UNION {[1..n -> chars] : n \in lo..hi}
Namespaces == Strings(NsChars, 1, MaxNs)
LocalNames == Strings(NameChars, 1, MaxName)
Qualified(ns, name) == <<"{">> \o ns \o <<"}">> \o name
Tags == LocalNames \cup {Qualified(ns, n) : ns \in Namespaces, n \in LocalNames}

\* str.split(sep): the pieces of s between the occurrences of sep
RECURSIVE Split(_, _)
Split(s, sep) ==
    IF \E i \in 1..Len(s) : s[i] = sep
    THEN LET i == CHOOSE j \in 1..Len(s) :
                      s[j] = sep /\ \A h \in 1..(j - 1) : s[h] # sep
         IN <<SubSeq(s, 1, i - 1)>> \o Split(SubSeq(s, i + 1, Len(s)), sep)
    ELSE <<s>>

\* mutant of StripNs: the piece before the first "}" is taken
StripNs_Before(t) ==
    IF \E i \in 1..Len(t) : t[i] = "}" THEN Split(t, "}")[1] ELSE t

\* child.tag.split('}')[1] if '}' in child.tag else child.tag
StripNs(t) ==
    IF \E i \in 1..Len(t) : t[i] = "}" THEN Split(t, "}")[2] ELSE t

\* an element: its tag, its text and the sequence of its children
Node(t, x, cs) == [tag |-> t, text |-> x, children |-> cs]
Texts == {"1", "2"}
LeafTags == {Qualified(<<"u">>, <<"F">>), <<"F">>, <<"o">>}
InnerTags == {<<"o">>}
Leaves == {Node(t, x, <<>>) : t \in LeafTags, x \in Texts}
Inner == {Node(t, None, cs) : t \in InnerTags,
                              cs \in UNION {[1..n -> Leaves] : n \in 1..MaxGrand}}
LoanTag == Qualified(<<"u">>, <<"o">>)
\* Loan elements with up to MaxChildren children, each a leaf or a container
Loans ==
    {Node(LoanTag, None, cs) :
        cs \in UNION {[1..n -> Leaves \cup Inner] : n \in 0..MaxChildren}}
\* Loan elements with one leaf child of any tag
TagLoans == {Node(LoanTag, None, <<Node(t, "1", <<>>)>>) : t \in Tags}

\* data[tag] = child.text
SetItem(data, k, v) ==
    [x \in DOMAIN data \cup {k} |-> IF x = k THEN v ELSE data[x]]

\* mutant of Update: a key already present keeps its value
Update_KeepFirst(data, other) ==
    [x \in DOMAIN data \cup DOMAIN other |->
        IF x \in DOMAIN data THEN data[x] ELSE other[x]]

\* data.update(other)
Update(data, other) ==
    [x \in DOMAIN data \cup DOMAIN other |->
        IF x \in DOMAIN other THEN other[x] ELSE data[x]]

\* child.text is a string or None: a record of flatten_xml holds texts
FromText(data) == [k \in DOMAIN data |-> [kind |-> "scalar", value |-> data[k]]]

\* flatten_xml(element, parent_tag): the for loop from child i on, `data`
\* holding what the children before i have put in
RECURSIVE flatten_xml(_, _), FlattenFrom(_, _, _)
FlattenFrom(cs, i, data) ==
    IF i > Len(cs) THEN data
    ELSE LET child == cs[i]
             tag == StripNs(child.tag)
         IN FlattenFrom(cs, i + 1,
                IF Len(child.children) > 0
                THEN Update(data, flatten_xml(child, tag))
                ELSE SetItem(data, tag, child.text))

flatten_xml(e, parent_tag) == FlattenFrom(e.children, 1, <<>>)

\* loan_data = flatten_xml(loan, parent_tag='Loan')
Flatten ==
    /\ entry = "flatten_xml"
    /\ ~flattened
    /\ flat' = flatten_xml(element, <<"L", "o", "a", "n">>)
    /\ data_list' = <<FromText(flatten_xml(element, <<"L", "o", "a", "n">>))>>
    /\ flattened' = TRUE
    /\ UNCHANGED <<orchVars, calls, element, summary>>
    /\ UNCHANGED <<commonVars, debtVars, paymentVars, valuationVars>>

\* a value of a decoded JSON item: a scalar, or a nested object or array
JsonValues ==
    {[kind |-> "scalar", value |-> "1"],
     [kind |-> "object", value |-> "{'F': 1}"],
     [kind |-> "array", value |-> "[1]"]}
\* an element of "Items": a dict, as response.json() decodes it
JsonKeys == {<<"F">>, <<"o">>}
JsonItems == UNION {[ks -> JsonValues] : ks \in (SUBSET JsonKeys) \ {{}}}
ItemLists == UNION {[1..n -> JsonItems] : n \in 0..MaxItems}

\* all_items.extend(report_data["Items"]) / items = data.get("Items", []):
\* the items are handed to pd.DataFrame as they came
Handed(items) == items

\* df = pd.DataFrame(all_items) (payment), df = pd.DataFrame(items) (valuation)
DataFrameOfItems ==
    /\ entry = "Items"
    /\ data_list = <<>>
    /\ \E items \in ItemLists :
          /\ Len(items) > 0
          /\ data_list' = Handed(items)
    /\ UNCHANGED <<orchVars, calls, element, flat, flattened, summary>>
    /\ UNCHANGED <<commonVars, debtVars, paymentVars, valuationVars>>

(***************************************************************************)
(* Specification                                                           *)
(***************************************************************************)
\* files an earlier run may have left in the output folder
OldFiles == [Kinds -> {Absent, Stale}]

\* nothing of main.py is running
NoMain ==
    /\ choice = "1"
    /\ orch = "none"
    /\ max_workers = 0
    /\ idx = 0
    /\ results = <<>>

\* flatten_xml is not under test
NoFlatten ==
    /\ element = <<>>
    /\ flat = <<>>
    /\ flattened = FALSE
    /\ data_list = <<>>
    /\ summary = <<>>

\* no pipeline has been called yet
PipelinesIdle ==
    /\ calls = [k \in Kinds |-> 0]
    /\ pc = [k \in Kinds |-> "idle"]
    /\ result = [k \in Kinds |-> NoResult]
    /\ returns = [k \in Kinds |-> 0]
    /\ dirExists \in BOOLEAN
    /\ file \in OldFiles
    /\ dirExists \/ file = [k \in Kinds |-> Absent]
    /\ writes = [k \in Kinds |-> 0]
    /\ sleeps = [k \in Kinds |-> 0]
    /\ df = [k \in Kinds |-> -1]
    /\ job_id = None
    /\ retries = 0
    /\ success = FALSE
    /\ dPosts = 0
    /\ dPostStatus = 0
    /\ dPostJobId = None
    /\ dGets = 0
    /\ dLast = 0
    /\ dNon200 = TRUE
    /\ all_items = 0
    /\ total_records = -1
    /\ pPuts = 0
    /\ pPutStatus = 0
    /\ pGets = 0
    /\ pFirstStatus = 0
    /\ pOffset = -1
    /\ pServed = 0
    /\ pPageFailed = FALSE
    /\ pAllFull = TRUE
    /\ vJob = None
    /\ report_data = NoData
    /\ file_path = None
    /\ vPuts = 0
    /\ vPutStatus = 0
    /\ vGets = 0
    /\ vGetStatus = 0
    /\ vGetJobId = None
    /\ vGetData = NoData
    /\ vPolls = 0
    /\ vLast = 0
    /\ vAll202 = TRUE
    /\ vPollEnd = "none"
    /\ vExports = 0

\* one pipeline function is called
Init ==
    /\ entry \in Kinds
    /\ PipelinesIdle
    /\ NoMain
    /\ NoFlatten

\* the steps of the pipelines
Pipelines ==
    \/ \E k \in Kinds : Start(k)
    \/ DebtSubmit
    \/ DebtGet
    \/ DebtCheckDir
    \/ DebtMakedirs
    \/ DebtToExcel
    \/ DebtReturn
    \/ PaymentPut
    \/ PaymentGet
    \/ PaymentPage
    \/ PaymentExport
    \/ PaymentReturn
    \/ ValuationPut
    \/ ValuationGet
    \/ ValuationPoll
    \/ ValuationExport
    \/ ValuationReturn

Next == Pipelines

Spec == Init /\ [][Next]_vars

\* main.py is run with either execution method, or run_reports_parallel is
\* called with its default pool size
InitMain ==
    /\ entry \in {"main", "run_reports_parallel"}
    /\ PipelinesIdle
    /\ file \in {[k \in Kinds |-> Absent], [k \in Kinds |-> Stale]}
    /\ NoFlatten
    /\ idx = 0
    /\ results = <<>>
    /\ IF entry = "main"
       THEN /\ choice \in ExecutionMethods
            /\ orch = "main"
            /\ max_workers = 0
       ELSE /\ choice = "1"
            /\ orch = "par"
            /\ max_workers = DefaultMaxWorkers

NextMain ==
    \/ MainDispatch
    \/ SeqRecord
    \/ \E k \in Kinds : ParCollect(k)
    \/ OrchReturn
    \/ PrintSummary
    \/ Pipelines

SpecMain == InitMain /\ [][NextMain]_vars

\* the steps of the thread that runs pipeline k, and of the thread of main
Thread(k) ==
    \/ Start(k)
    \/ (k = "debt" /\ (DebtSubmit \/ DebtGet \/ DebtCheckDir \/ DebtMakedirs
                         \/ DebtToExcel \/ DebtReturn))
    \/ (k = "payment" /\ (PaymentPut \/ PaymentGet \/ PaymentPage
                            \/ PaymentExport \/ PaymentReturn))
    \/ (k = "valuation" /\ (ValuationPut \/ ValuationGet \/ ValuationPoll
                              \/ ValuationExport \/ ValuationReturn))
MainThread ==
    MainDispatch \/ SeqRecord \/ (\E k \in Kinds : ParCollect(k)) \/ OrchReturn
        \/ PrintSummary

\* run_reports_parallel() is called with no output folder yet
InitPool ==
    /\ InitMain
    /\ entry = "run_reports_parallel"
    /\ ~dirExists

NextPool ==
    \/ \E k \in Kinds : ParCollect(k)
    \/ OrchReturn
    \/ Pipelines

SpecPool == InitPool /\ [][NextPool]_vars

\* a run of the worker pool in which every API call returns and every thread
\* that can take a step is eventually scheduled
SpecPoolFair ==
    /\ SpecPool
    /\ \A k \in Kinds : WF_vars(Thread(k))
    /\ WF_vars(MainThread)

\* print_summary is called with a results list
InitSummary ==
    /\ entry = "print_summary"
    /\ PipelinesIdle
    /\ ~dirExists
    /\ NoFlatten
    /\ choice = "1"
    /\ orch = "none"
    /\ max_workers = 0
    /\ idx = 0
    /\ results \in ResultLists

NextSummary == PrintSummary

SpecSummary == InitSummary /\ [][NextSummary]_vars

\* flatten_xml is applied to one Loan element, or the items of a JSON answer
\* are made into a table
InitFlatten ==
    /\ entry \in {"flatten_xml", "Items"}
    /\ PipelinesIdle
    /\ ~dirExists
    /\ NoMain
    /\ element \in (IF entry = "flatten_xml" THEN Loans \cup TagLoans ELSE {<<>>})
    /\ flat = <<>>
    /\ flattened = FALSE
    /\ data_list = <<>>
    /\ summary = <<>>

NextFlatten == Flatten \/ DataFrameOfItems

SpecFlatten == InitFlatten /\ [][NextFlatten]_vars

(***************************************************************************)
(* Properties                                                              *)
(***************************************************************************)
Min(a, b) == IF a <= b THEN a ELSE b
Max(a, b) == IF a >= b THEN a ELSE b
\* ceil(n / d)
Ceil(n, d) == (n + d - 1) \div d

At(k, labels) == pc[k] \in labels
Failed(k, msg) == pc[k] = "done" /\ returns[k] = 1 /\ result[k] = Failure(msg)
NotWritten(k) == writes[k] = 0 /\ file[k].state # "fresh"

\* C1 -- Protocol A retry bound: with a job id obtained and every GET of the
\* report answered by a non-200 status, generate_debt_report issues exactly 5
\* GETs, then returns the retrieval failure, and never writes the output file.
C1_RetryBound ==
    (Truthy(job_id) /\ dNon200) =>
        /\ dGets <= 5
        /\ NotWritten("debt")
        /\ (dGets = 5 => ~At("debt", {"get"}))
        /\ (At("debt", {"done"}) =>
              /\ dGets = 5
              /\ Failed("debt", "Failed to retrieve data after multiple attempts"))

C1_Witness ==
    /\ Truthy(job_id) /\ dNon200 /\ dGets = 5
    /\ Failed("debt", "Failed to retrieve data after multiple attempts")

\* C2 -- Protocol C poll bound: with every poll answered by 202,
\* poll_report_status issues exactly 30 GETs and then fails with the timeout;
\* a 31st poll is never issued.
C2_PollBound ==
    /\ vPolls <= 30
    /\ (vAll202 /\ vPolls >= 1 /\ vPolls < 30 => At("valuation", {"poll"}))
    /\ (vAll202 /\ vPolls = 30 =>
          /\ vPollEnd = "timeout"
          /\ Failed("valuation", "Report generation timed out."))

C2_Witness ==
    vAll202 /\ vPolls = 30 /\ Failed("valuation", "Report generation timed out.")

\* C3 -- Protocol C status semantics: a poll is issued only as the first poll or
\* after a 202; a 200 hands the payload over (ready); any other status fails at
\* once with the unexpected-status error; polling goes on only after a 202.
C3_StatusSemantics ==
    [][vPolls' = vPolls + 1 =>
        /\ (vPolls > 0 => vLast = 202)
        /\ (vLast' = 200 =>
              /\ vPollEnd' = "ready"
              /\ report_data' \in Payloads
              /\ pc'["valuation"] = "export")
        /\ (vLast' \notin {0, 200, 202} =>
              /\ vPollEnd' = "unexpected"
              /\ pc'["valuation"] = "done"
              /\ result'["valuation"] = Failure("Unexpected status"))
        /\ (pc'["valuation"] = "poll" => vLast' = 202)]_vars

C3_Witness ==
    /\ vPolls >= 2 /\ vLast \notin {0, 200, 202}
    /\ Failed("valuation", "Unexpected status")

\* C4 -- when polling ends in the timeout or in the unexpected-status error,
\* generate_valuation_report returns success = false with file_path None and
\* export_to_excel is never called: no output file is written.
C4_NoExportOnPollFailure ==
    vPollEnd \in {"timeout", "unexpected"} =>
        /\ At("valuation", {"done"})
        /\ returns["valuation"] = 1
        /\ ~result["valuation"].success
        /\ result["valuation"].file_path = None
        /\ vExports = 0
        /\ NotWritten("valuation")

C4_Witness ==
    /\ vPollEnd = "timeout" /\ At("valuation", {"done"})
    /\ file["valuation"] = Stale

\* the pagination of Protocol B is over and TotalRecords was read
Paginated ==
    /\ At("payment", {"export", "return"})
    /\ pFirstStatus = 200
    /\ total_records >= 0

\* C5 (as stated) -- against an endpoint reporting TotalRecords = N and serving
\* pages of at most 100 items, generate_payment_report accumulates exactly
\* min(N, items served) records, and with every page full it issues exactly
\* ceil(N/100) GETs of the report.
C5_AsStated ==
    Paginated =>
        /\ all_items = Min(total_records, pServed)
        /\ (pAllFull => pGets = Ceil(total_records, 100))

\* C5 (amended) -- generate_payment_report accumulates exactly the items the
\* endpoint served, which is min(N, items served) whenever no more than N were
\* served; with every page full it issues exactly ceil(N/100) GETs of the
\* report when N >= 1, and the single first GET when N = 0.
C5_PaginationCount ==
    Paginated =>
        /\ all_items = (IF pServed <= total_records
                        THEN Min(total_records, pServed) ELSE pServed)
        /\ (pAllFull => pGets = Max(1, Ceil(total_records, 100)))

C5_Witness ==
    /\ Paginated /\ pAllFull /\ pGets = 2
    /\ total_records = 151 /\ all_items = 200

\* C6 -- the pagination loop of Protocol B ends after finitely many requests:
\* every page request either adds at least one item or leaves the loop, and the
\* loop is in progress only while fewer items than TotalRecords are collected,
\* so the page requests number at most the items collected.
C6_PaginationTerminates ==
    [][At("payment", {"page"}) /\ pGets' = pGets + 1 =>
        /\ (all_items' > all_items \/ pc'["payment"] # "page")
        /\ (pc'["payment"] = "page" =>
              /\ all_items' < total_records'
              /\ pGets' - 1 <= all_items')]_vars

C6_Witness ==
    /\ At("payment", {"export"}) /\ pGets = 3
    /\ all_items < total_records /\ ~pPageFailed

\* what PaymentExport writes for n collected items
Exported(n) == IF n > 0 THEN Fresh(n, FALSE) ELSE Fresh(1, TRUE)

\* C7 -- Protocol B partial export: after a 200 on the first GET, a page GET
\* answered by a non-200 status is the last request; the items collected before
\* it are exported and generate_payment_report returns success = true.
C7_PartialExport ==
    [][(pPageFailed => pGets' = pGets /\ all_items' = all_items)
        /\ (pPageFailed' =>
              /\ pFirstStatus' = 200
              /\ pc'["payment"] \in {"export", "return", "done"}
              /\ (pc'["payment"] \in {"return", "done"} =>
                    file'["payment"] = Exported(all_items'))
              /\ (pc'["payment"] = "done" =>
                    /\ returns'["payment"] = 1
                    /\ result'["payment"].success
                    /\ result'["payment"].file_path = Path("payment")))]_vars

C7_Witness ==
    /\ pPageFailed /\ At("payment", {"done"}) /\ result["payment"].success
    /\ all_items = 100 /\ total_records = 200
    /\ file["payment"] = Fresh(100, FALSE)

\* C8 -- Protocol A submit failure: when the POST is answered by a non-200
\* status, or by a JSON body without a job id, generate_debt_report returns the
\* job-id failure, issues no GET of the report and writes no output file.
C8_SubmitFailure ==
    (dPostStatus \notin {0, 200} \/ (dPostStatus = 200 /\ dPostJobId = None)) =>
        /\ Failed("debt", "Failed to retrieve jobid")
        /\ dGets = 0
        /\ NotWritten("debt")

C8_Witness ==
    /\ dPostStatus = 500 /\ dPostJobId = "job-1"
    /\ Failed("debt", "Failed to retrieve jobid")

\* C9 -- template gate of Protocols B and C: a non-200 answer to the template
\* PUT makes the pipeline return the template failure without any report GET,
\* poll or file write; a report GET is issued only after a 200 from the PUT.
C9_TemplateGate ==
    /\ (pPutStatus \notin {0, 200} =>
          /\ Failed("payment", "Failed to create/update payment template")
          /\ pGets = 0
          /\ NotWritten("payment"))
    /\ (vPutStatus \notin {0, 200} =>
          /\ Failed("valuation", "Template creation failed")
          /\ vGets = 0 /\ vPolls = 0 /\ vExports = 0
          /\ NotWritten("valuation"))
    /\ (pGets > 0 => pPutStatus = 200)
    /\ (vGets > 0 => vPutStatus = 200)

C9_Witness ==
    /\ vPutStatus = 202 /\ Failed("valuation", "Template creation failed")
    /\ file["valuation"] = Stale

\* C10 -- initial report fetch failure: a non-200 answer to the first report
\* GET of Protocol B, or to the transactions GET of Protocol C, makes the
\* pipeline return a failure without any page request, poll or file write.
C10_InitialFetchFailure ==
    /\ (pFirstStatus \notin {0, 200} =>
          /\ Failed("payment", "Failed to generate payment report")
          /\ pGets = 1
          /\ NotWritten("payment"))
    /\ (vGetStatus \notin {0, 200} =>
          /\ Failed("valuation", "Failed to start report job")
          /\ vGets = 1 /\ vPolls = 0 /\ vExports = 0
          /\ NotWritten("valuation"))

C10_Witness ==
    /\ pFirstStatus = 202 /\ Failed("payment", "Failed to generate payment report")
    /\ file["payment"] = Stale

\* C11 -- pipeline error boundary: whatever the API answers and whichever call
\* raises, a pipeline returns exactly one result and the exception never leaves
\* it; a result with success = false carries an error message and file_path None.
C11_ErrorBoundary ==
    \A k \in Kinds :
        /\ pc[k] # "raised"
        /\ returns[k] = (IF pc[k] = "done" THEN 1 ELSE 0)
        /\ (pc[k] = "done" =>
              /\ result[k] # NoResult
              /\ (~result[k].success =>
                    /\ result[k].error # None
                    /\ result[k].file_path = None))

C11_Witness ==
    /\ pGets = 2 /\ all_items = 100
    /\ Failed("payment", ConnectionError)

\* the execution method of the run
SeqMode == entry = "main" /\ choice = "1" /\ orch # "main"
ParMode == entry = "run_reports_parallel" \/ (entry = "main" /\ choice = "2" /\ orch # "main")

Names == {results[i].name : i \in 1..Len(results)}

\* C12 -- sibling isolation: in sequential and in concurrent mode, whichever
\* pipelines fail or raise, every pipeline is called exactly once and the
\* returned results hold exactly one entry per report kind, a raising pipeline
\* being recorded with success = false.
C12_SiblingIsolation ==
    /\ \A k \in Kinds : calls[k] <= 1
    /\ Cardinality(Names) = Len(results)
    /\ \A i \in 1..Len(results) :
          /\ Ended(results[i].name)
          /\ results[i].result =
                (IF pc[results[i].name] = "raised"
                 THEN Failure("crashed") ELSE result[results[i].name])
    /\ (orch = "returned" =>
          /\ \A k \in Kinds : calls[k] = 1 /\ Ended(k)
          /\ Len(results) = 3
          /\ Names = Kinds)

C12_Witness ==
    /\ orch = "returned" /\ SeqMode
    /\ ~result["payment"].success
    /\ ~result["debt"].success
    /\ result["valuation"].success

\* C13 -- concurrent-mode independence: in the worker pool every pipeline
\* returns what it returns when run alone against the same answers; the shared
\* output folder never makes a pipeline fail because a sibling created it
\* first.  Run alone, the debt pipeline succeeds whenever a GET returned 200.
C13_Independence ==
    ParMode =>
        /\ (At("debt", {"done"}) /\ success => result["debt"].success)
        /\ \A k \in Kinds : ~Failed(k, FileExistsError)

\* C14 -- sequential mode: at most one pipeline is active at any time, the
\* pipelines run in the order Payment, Debt, Valuation, and a pipeline starts
\* only after the previous one has ended (success, failure or raise) and was
\* recorded.
C14_SequentialOrder ==
    SeqMode =>
        /\ Cardinality(Running) <= 1
        /\ \A i \in 1..Len(results) : results[i].name = reports[i]
        /\ (pc["debt"] # "idle" => Ended("payment") /\ Len(results) >= 1)
        /\ (pc["valuation"] # "idle" => Ended("debt") /\ Len(results) >= 2)

C14_Witness ==
    /\ SeqMode /\ Running = {"valuation"}
    /\ ~result["payment"].success /\ result["debt"].success

\* C15 (as stated) -- when concurrent execution is selected the worker pool has
\* as many workers as there are report kinds (3).
C15_AsStated == ParMode => max_workers = 3

\* C15 (amended) -- the default pool size of run_reports_parallel is the number
\* of report kinds (3), but the pool main creates when concurrent execution is
\* selected has 2 workers: at most two pipelines are in progress at a time and
\* Valuation starts only after Payment or Debt has ended.
C15_PoolSize ==
    /\ (entry = "run_reports_parallel" => max_workers = 3)
    /\ (ParMode => Cardinality(Running) <= max_workers)
    /\ (ParMode /\ entry = "main" =>
          /\ max_workers = 2
          /\ Cardinality(Running) <= 2
          /\ (pc["valuation"] # "idle" => Ended("payment") \/ Ended("debt")))

C15_Witness ==
    /\ ParMode /\ entry = "main"
    /\ Running = {"payment", "debt"}
    /\ pc["valuation"] = "idle"
    /\ pc["payment"] = "return" /\ pc["debt"] = "return"

\* C16 (as stated) -- when the retrieval succeeds with zero records, each of
\* the three pipelines still writes its output file, holding exactly one data
\* row made of the run date and a marker saying no data was found.
C16_EmptyResultExport ==
    /\ (At("payment", {"return", "done"}) /\ all_items = 0 =>
          file["payment"] = Fresh(1, TRUE))
    /\ (At("debt", {"return", "done"}) /\ success /\ df["debt"] = 0 =>
          file["debt"] = Fresh(1, TRUE))
    /\ (At("valuation", {"return", "done"}) /\ vExports = 1
            /\ Items(report_data) = 0 =>
          file["valuation"] = Fresh(1, TRUE))

\* where a retrieval stands: Protocol A (debt) and Protocol C (valuation)
PhaseA ==
    IF pc["debt"] = "get" THEN (IF dGets = 0 THEN "Submitted" ELSE "Polling")
    ELSE IF dGets = 0 THEN "Idle"
    ELSE IF success THEN "Ready"
    ELSE IF dLast = 0 THEN "Failed"
    ELSE "TimedOut"

PhaseC ==
    IF pc["valuation"] = "poll" THEN (IF vPolls = 0 THEN "Submitted" ELSE "Polling")
    ELSE IF vPollEnd = "ready" THEN "Ready"
    ELSE IF vPollEnd = "timeout" THEN "TimedOut"
    ELSE IF vPollEnd \in {"unexpected", "raised"} THEN "Failed"
    ELSE "Idle"

Terminal == {"Ready", "Failed", "TimedOut"}

Rank(ph) ==
    CASE ph = "Idle" -> 0
      [] ph = "Submitted" -> 1
      [] ph = "Polling" -> 2
      [] ph \in Terminal -> 3

\* one step of a retrieval from phase a to phase b, n to m polls issued,
\* `again` telling whether the status just received asks for another poll
PhaseStep(a, b, n, m, again) ==
    /\ Rank(b) >= Rank(a)
    /\ m \in {n, n + 1}
    /\ (a = "Idle" => b \in {"Idle", "Submitted"} /\ m = n)
    /\ (a \in Terminal => b = a /\ m = n)
    /\ (a = "Submitted" /\ b = "Submitted" => m = n)
    /\ (b = "Polling" => m = n + 1 /\ again)
    /\ (a \in {"Submitted", "Polling"} /\ b \in Terminal => m = n + 1 /\ ~again)

\* C17 -- retrieval state machine: a run of the debt (A) and of the valuation
\* (C) retrieval moves only along Submitted -> Polling -> {Ready, Failed,
\* TimedOut}; Polling is re-entered only on a retryable status (non-200 for A,
\* 202 for C); a terminal state is absorbing, no request following it; a
\* terminal state is reached after at most 5 (A) and 30 (C) poll requests.
C17_RetrievalStateMachine ==
    /\ [][/\ PhaseStep(PhaseA, PhaseA', dGets, dGets',
                       dLast' \notin {0, 200} /\ DebtLoop(retries', success'))
          /\ PhaseStep(PhaseC, PhaseC', vPolls, vPolls',
                       vLast' = 202 /\ PollLoop(vPolls'))]_vars
    /\ [](/\ dGets <= 5 /\ (dGets = 5 => PhaseA \in Terminal)
          /\ vPolls <= 30 /\ (vPolls = 30 => PhaseC \in Terminal)
          /\ (pc["debt"] = "done" => PhaseA \in Terminal \cup {"Idle"})
          /\ (pc["valuation"] = "done" => PhaseC \in Terminal \cup {"Idle"}))

C17_Witness == PhaseC = "TimedOut" /\ vPolls = 30 /\ pc["valuation"] = "done"

\* C18 (as stated) -- in Protocol A a GET that raises consumes one attempt like
\* a non-200 answer: while attempts remain the pipeline waits and polls again.
C18_TransportRetry ==
    dGets >= 1 /\ dLast = 0 /\ dGets < 5 =>
        /\ At("debt", {"get"})
        /\ retries = dGets
        /\ sleeps["debt"] = dGets

\* the leaves below an element in document (depth-first) order
RECURSIVE DocLeaves(_, _)
DocLeaves(cs, i) ==
    IF i > Len(cs) THEN <<>>
    ELSE (IF Len(cs[i].children) > 0
          THEN DocLeaves(cs[i].children, 1) ELSE <<cs[i]>>) \o DocLeaves(cs, i + 1)

\* the local name of a tag, read off its form: "{ns}name" or "name"
LocalName(t) ==
    IF t \in LocalNames THEN t
    ELSE CHOOSE n \in LocalNames : \E ns \in Namespaces : t = Qualified(ns, n)

\* C19 -- key collisions in flatten_xml: when several leaves of the tree have
\* the same local name, the flattened mapping holds the text of the one
\* visited last in document (depth-first) order; the keys are the local names
\* of the leaves only, a node with children contributing no key of its own.
C19_KeyCollision ==
    flattened =>
        LET leaves == DocLeaves(element.children, 1)
        IN /\ DOMAIN flat = {LocalName(leaves[i].tag) : i \in 1..Len(leaves)}
           /\ \A i \in 1..Len(leaves) :
                 (\A j \in (i + 1)..Len(leaves) :
                      LocalName(leaves[j].tag) # LocalName(leaves[i].tag))
                 => flat[LocalName(leaves[i].tag)] = leaves[i].text

C19_Witness ==
    /\ flattened
    /\ Len(element.children) = 2
    /\ element.children[1] = Node(<<"F">>, "1", <<>>)
    /\ element.children[2] =
          Node(<<"o">>, None, <<Node(Qualified(<<"u">>, <<"F">>), "2", <<>>)>>)
    /\ flat = [k \in {<<"F">>} |-> "2"]

\* C20 -- namespace stripping: a leaf whose tag is "{ns}Foo" is flattened
\* under the key "Foo", whatever the namespace ns; a leaf whose tag has no
\* namespace is flattened under its tag unchanged.
C20_NamespaceStripping ==
    flattened =>
        \A i \in 1..Len(element.children) :
            LET child == element.children[i]
            IN Len(child.children) = 0 =>
                /\ \A ns \in Namespaces, n \in LocalNames :
                      child.tag = Qualified(ns, n) => n \in DOMAIN flat
                /\ (child.tag \in LocalNames => child.tag \in DOMAIN flat)
                /\ (Len(element.children) = 1 =>
                      flat = [k \in {LocalName(child.tag)} |-> child.text])

C20_Witness ==
    /\ flattened
    /\ element.children =
          <<Node(Qualified(<<"{", ":">>, <<"F", "o">>), "1", <<>>)>>
    /\ flat = [k \in {<<"F", "o">>} |-> "1"]

\* C21 (as stated) -- FlatRecord: every record handed to table construction
\* maps its field names to scalar values only, for the records flatten_xml
\* makes of Loan elements and for the JSON "Items" elements used directly.
C21_FlatRecord ==
    \A i \in 1..Len(data_list) :
        \A k \in DOMAIN data_list[i] : data_list[i][k].kind = "scalar"

\* sum of the record counts of the entries of rs whose index is in S
RECURSIVE RecordSum(_, _)
RecordSum(rs, S) ==
    IF S = {} THEN 0
    ELSE LET i == CHOOSE j \in S : TRUE
         IN (IF "records" \in DOMAIN rs[i].result THEN rs[i].result.records ELSE 0)
            + RecordSum(rs, S \ {i})

\* C22 -- run summary: for any results list print_summary returns successful +
\* failed equal to the number of results, failed equal to the number of
\* results whose success flag is not true (nonzero whenever a report failed),
\* and total_records equal to the sum of the record counts of the successful
\* results only.
C22_SummaryAccounting ==
    summary # <<>> =>
        LET ok == {i \in 1..Len(results) :
                      /\ "success" \in DOMAIN results[i].result
                      /\ results[i].result.success}
        IN /\ summary[1] + summary[2] = Len(results)
           /\ summary[1] = Cardinality(ok)
           /\ summary[2] = Len(results) - Cardinality(ok)
           /\ (ok # 1..Len(results) => summary[2] > 0)
           /\ summary[3] = RecordSum(results, ok)

C22_Witness ==
    /\ entry = "print_summary"
    /\ Len(results) = 3
    /\ results[1].result = [success |-> FALSE, error |-> "e", records |-> 1]
    /\ results[2].result = [success |-> TRUE, records |-> 2]
    /\ results[3].result = [error |-> "e"]
    /\ summary = <<1, 2, 2>>

\* C23 (as stated) -- debt pipeline end to end: once the job id is obtained
\* and a report GET returns 200 with n >= 1 Loan elements, the output file is
\* written exactly once, with n rows, and the result has success = true and
\* the record count n.
C23_DebtEndToEnd ==
    At("debt", {"done"}) /\ dLast = 200 /\ df["debt"] >= 1 =>
        /\ writes["debt"] = 1
        /\ file["debt"] = Fresh(df["debt"], FALSE)
        /\ result["debt"] = Success(Path("debt"), df["debt"])

\* C24 (as stated) -- Protocol A treats every non-200 status alike: when the
\* first 200 is the k-th answer, k <= 5, exactly k GETs are issued whatever
\* the non-200 codes before it were, no GET follows the 200 and the run ends
\* in success; a 200 at position 6 or later is never observed.
C24_StatusAlike ==
    /\ dGets <= 5
    /\ (dGets >= 1 /\ dNon200 => retries = dGets)
    /\ (dLast = 200 =>
          /\ retries = dGets - 1
          /\ ~At("debt", {"get"})
          /\ (At("debt", {"done"}) => result["debt"].success))

\* C25 (as stated) -- delays only between attempts: once a retrieval of
\* Protocol A or C has made its last attempt, k attempts have incurred k - 1
\* sleeps, so that exhaustion and poll timeout are reported without a
\* trailing sleep.
C25_DelaysBetweenAttempts ==
    /\ (dGets >= 1 /\ ~At("debt", {"get"}) => sleeps["debt"] = dGets - 1)
    /\ (vPolls >= 1 /\ ~At("valuation", {"poll"}) =>
          sleeps["valuation"] = vPolls - 1)

\* C26 (as stated) -- Protocol B offsets: every page request after the first
\* carries an offset equal to the number of items accumulated so far, so the
\* offsets of successive requests are strictly increasing and no offset is
\* requested twice.
C26_AsStated ==
    [][pGets' = pGets + 1 /\ pGets >= 1 =>
          pOffset' = all_items /\ pOffset' > pOffset]_vars

\* C26 (amended) -- every page request after the first carries an offset equal
\* to the number of items accumulated so far; the offsets of successive
\* requests are strictly increasing, except that offset 0 is requested a
\* second time when the first page came back with no item under a
\* TotalRecords above 0; from the second request on no offset is repeated.
C26_OffsetProgression ==
    [][pGets' = pGets + 1 /\ pGets >= 1 =>
          /\ pOffset' = all_items
          /\ (IF pGets = 1 /\ all_items = 0
              THEN pOffset' = 0 /\ total_records > 0
              ELSE pOffset' > pOffset)]_vars

C26_Witness ==
    /\ pGets = 3 /\ pOffset = 100 /\ all_items = 150
    /\ At("payment", {"done"}) /\ result["payment"].success

\* C27 -- inline or asynchronous: the job-status endpoint is polled if and only
\* if the 200 answer of the transactions GET carries a job id; without a job
\* id no poll is issued and the body of that answer is the payload handed to
\* the exporter.
C27_InlineVsAsync ==
    LET hasJobId == vGetStatus = 200 /\ vGetJobId \notin {None, ""}
    IN /\ (vPolls >= 1 \/ At("valuation", {"poll"}) => hasJobId)
       /\ (hasJobId => vPolls >= 1 \/ At("valuation", {"poll"}))
       /\ (vGetStatus = 200 /\ ~hasJobId =>
             /\ vPolls = 0
             /\ report_data = vGetData
             /\ (At("valuation", {"return", "done"}) => vExports = 1))
       /\ (vExports >= 1 /\ vPolls = 0 => report_data = vGetData)

C27_Witness ==
    /\ vGetStatus = 200 /\ vGetJobId = "" /\ vPolls = 0
    /\ vGetData = [hasItems |-> TRUE, items |-> 2]
    /\ result["valuation"] = Success(Path("valuation"), 2)

\* records retrieved from the API by pipeline k in this run
Retrieved(k) ==
    CASE k = "debt" -> df["debt"]
      [] k = "payment" -> all_items
      [] k = "valuation" -> Items(report_data)

\* C28 (as stated) -- success implies a file written in this run: a result
\* with success = true is returned only after the output file was written
\* during the same run, and its record count is the number of records
\* retrieved from the API in that run (zero when none were retrieved).
C28_SuccessImpliesFile ==
    \A k \in Kinds :
        At(k, {"done"}) /\ result[k].success =>
            /\ writes[k] >= 1
            /\ file[k].state = "fresh"
            /\ result[k].records = Retrieved(k)

\* C29 -- run to conclusion: every API call returning, every pipeline of the
\* worker pool eventually ends with its own result and keeps it (a pipeline
\* once started is never reset or abandoned because a sibling ended or failed
\* first), and run_reports_parallel returns, only after all three pipelines
\* have ended.
C29_RunToConclusion ==
    /\ <>(orch = "returned" /\ \A k \in Kinds : pc[k] = "done")
    /\ [][\A k \in Kinds :
            /\ (pc[k] = "done" => pc'[k] = "done" /\ result'[k] = result[k])
            /\ (pc[k] # "idle" => pc'[k] # "idle")]_vars
    /\ [](orch = "returned" =>
            /\ Len(results) = 3
            /\ \A k \in Kinds : pc[k] = "done" /\ returns[k] = 1)

C29_Witness ==
    /\ ParMode /\ orch = "returned"
    /\ ~result["payment"].success
    /\ result["debt"].success
    /\ ~result["valuation"].success

=============================================================================
